---- MODULE Spec2Model ----
(***************************************************************************)
(* AsyncAPI 3.0.0 document assembly of faststream                          *)
(* (faststream/specification/asyncapi/v3_0_0/generate.py) over a broker    *)
(* registry of subscribers and publishers.                                 *)
(*                                                                         *)
(* Strings are sequences of tokens; "/", "." and ":" are tokens of their   *)
(* own, so that clear_key and title.split(":") act on them as the code     *)
(* does on characters.  No token is a prefix of another, so two token      *)
(* sequences are equal exactly when the strings they spell are equal.      *)
(* A Python dict is a sequence of [k, v] entries in insertion order.       *)
(***************************************************************************)
EXTENDS Integers, Sequences, FiniteSets

VARIABLES
    broker,      \* broker.url, broker.security, broker.tags
    subs,        \* broker._subscribers, in registry order
    pubs,        \* broker._publishers, in registry order
    desc,        \* message descriptors handed out by sub.schema(), per subscriber
    docs,        \* the last two documents get_app_schema returned for this registry
    raised,      \* the last get_app_schema call raised
    channels,    \* last return value of get_broker_channels
    operations,  \* last return value of get_broker_operations
    servers      \* last return value of get_broker_server

vars == <<broker, subs, pubs, desc, docs, raised, channels, operations, servers>>

\* ---------------------------------------------------------------- bounds

MaxEndpoints == 2
MaxUrls == 3

\* ---------------------------------------------------------------- dicts

Keys(d) == {d[i].k : i \in DOMAIN d}

HasKey(d, k) == \E i \in DOMAIN d : d[i].k = k

IndexOf(d, k) == CHOOSE i \in DOMAIN d : d[i].k = k

DictGet(d, k) == d[IndexOf(d, k)].v

\* d[k] = v: an existing key keeps its position, a new key is appended
DictSet(d, k, v) ==
    IF HasKey(d, k)
    THEN [d EXCEPT ![IndexOf(d, k)] = [k |-> k, v |-> v]]
    ELSE Append(d, [k |-> k, v |-> v])

RECURSIVE DictUpdate(_, _)
\* d.update(e)
DictUpdate(d, e) ==
    IF e = <<>> THEN d
    ELSE DictUpdate(DictSet(d, Head(e).k, Head(e).v), Tail(e))

\* ---------------------------------------------------------------- strings

DEF_KEY == <<"$defs">>

SchemaPrefix == <<"#/", "components/schemas", "/">>
MessagePrefix == <<"#/", "components/messages", "/">>
ServerPrefix == <<"#/", "servers", "/">>
ChannelPrefix == <<"#/", "channels", "/">>

\* key.replace("/", ".")
clear_key(key) == [i \in DOMAIN key |-> IF key[i] = "/" THEN "." ELSE key[i]]

\* the position of the last ":" of a title, 0 when it has none
LastColon(t) ==
    IF \E i \in DOMAIN t : t[i] = ":"
    THEN CHOOSE i \in DOMAIN t : t[i] = ":" /\ \A j \in DOMAIN t : t[j] = ":" => j <= i
    ELSE 0

\* *left, right = title.split(":"); ":".join(left) + f":Subscribe{right}"
SubscribeTitle(title) ==
    SubSeq(title, 1, LastColon(title) - 1)
        \o <<":", "Subscribe">>
        \o SubSeq(title, LastColon(title) + 1, Len(title))

\* ---------------------------------------------------------------- payloads

NoOneOf == [kind |-> "none", variants |-> <<>>, refs |-> <<>>]

\* a JSON-schema mapping: "$ref" (ref), "title", DEF_KEY (defs), "oneOf" and the
\* reference strings held by its other keys (uses); an absent key is empty
Body(title, defs, oneOf, uses) ==
    [ref |-> <<>>, title |-> title, defs |-> defs, oneOf |-> oneOf, uses |-> uses]

\* {"$ref": r}
Reference(r) == [ref |-> r, title |-> <<>>, defs |-> <<>>, oneOf |-> NoOneOf, uses |-> <<>>]

DefD == Body(<<"D">>, <<>>, NoOneOf, <<>>)
DefsD == <<[k |-> <<"D">>, v |-> DefD]>>
RefToD == <<"#/">> \o DEF_KEY \o <<"/", "D">>

RECURSIVE MoveEntries(_)
RECURSIVE move_pydantic_refs(_)
\* every string value holding DEF_KEY has it replaced by "components/schemas",
\* in the mapping and in the mappings nested in it
move_pydantic_refs(original) ==
    [original EXCEPT
        !.uses = [i \in DOMAIN original.uses |->
                    [j \in DOMAIN original.uses[i] |->
                        IF <<original.uses[i][j]>> = DEF_KEY
                        THEN "components/schemas"
                        ELSE original.uses[i][j]]],
        !.defs = MoveEntries(original.defs),
        !.oneOf = [original.oneOf EXCEPT !.variants = MoveEntries(original.oneOf.variants)]]

MoveEntries(d) ==
    IF d = <<>> THEN <<>>
    ELSE <<[k |-> Head(d).k, v |-> move_pydantic_refs(Head(d).v)]>> \o MoveEntries(Tail(d))

EmptyPayload == Body(<<>>, <<>>, NoOneOf, <<>>)
ModelPayload == Body(<<"User">>, DefsD, NoOneOf, <<RefToD>>)
VariantA == Body(<<"A">>, <<>>, NoOneOf, <<>>)
VariantB == Body(<<"B", "/", "x">>, DefsD, NoOneOf, <<RefToD>>)
UnionPayload ==
    Body(<<"H">>, <<>>,
         [kind |-> "map",
          variants |-> <<[k |-> <<"B", "/", "x">>, v |-> VariantB],
                         [k |-> <<"A">>, v |-> VariantA]>>,
          refs |-> <<>>],
         <<>>)
ListPayload ==
    Body(<<"U">>, <<>>,
         [kind |-> "list", variants |-> <<[k |-> <<>>, v |-> VariantA]>>, refs |-> <<>>],
         <<>>)

Payloads == {EmptyPayload, ModelPayload, UnionPayload, ListPayload}

Names == {<<"q", ":", "a">>, <<"q", ":", "a", "Subscribe">>,
          <<"a", "/", "b">>, <<"a", ".", "b">>}

\* ---------------------------------------------------------------- registry

\* a registered endpoint: its channel name, the payload resolve_payloads gives,
\* and whether its message carries a title
Publishers == [name : Names, payload : Payloads, titled : {TRUE}]
Subscribers ==
    {s \in [name : Names, payload : Payloads, titled : BOOLEAN] :
        ~s.titled => s.payload = EmptyPayload}

\* SpecificationPublisher.get_schema: {self.name: Channel(publish=Operation(
\* message=Message(title=f"{self.name}:Message", payload=...)))}
PubSchema(p) ==
    [name |-> p.name,
     message |-> [title |-> p.name \o <<":", "Message">>, payload |-> p.payload]]

\* the subscriber's schema(): {self.name: Channel(subscribe=Operation(
\* message=Message(title=f"{self.name}:Message", payload=...)))}
SubSchema(s) ==
    [name |-> s.name,
     message |-> [title |-> IF s.titled THEN s.name \o <<":", "Message">> ELSE <<>>,
                  payload |-> s.payload]]

NoDesc == [obtained |-> FALSE, orig |-> <<>>, title |-> <<>>]

\* ---------------------------------------------------------------- servers

Urls == {<<"amqp", "://", "h1">>, <<"h2">>, <<"h1", "/v">>}

RECURSIVE SeqsUpTo(_, _)
SeqsUpTo(S, n) ==
    IF n = 0 THEN {<<>>}
    ELSE LET shorter == SeqsUpTo(S, n - 1)
         IN shorter \cup {Append(q, x) : q \in shorter, x \in S}

\* broker.url is one URL or a list of URLs
UrlConfigs ==
    [isList : {FALSE}, items : {<<u>> : u \in Urls}]
        \cup [isList : {TRUE}, items : SeqsUpTo(Urls, MaxUrls)]

Brokers == [url : UrlConfigs, security : {"none", "sasl"}, tags : {<<>>, <<"t">>}]

\* urlparse(server_url): netloc is the token after the "://" or "//" delimiter,
\* path is what follows it
Delim(u) == CHOOSE i \in DOMAIN u : u[i] \in {"://", "//"}
UrlParse(u) == [netloc |-> u[Delim(u) + 1], path |-> SubSeq(u, Delim(u) + 2, Len(u))]

\* broker_url if "://" in broker_url else f"//{broker_url}"
ServerUrl(u) == IF \E i \in DOMAIN u : u[i] = "://" THEN u ELSE <<"//">> \o u

\* str(i) for the positions the model reaches
Decimal == <<"1", "2", "3", "4", "5", "6", "7", "8", "9">>

\* faulty variant: the first server is always named "development"
ServerName_first(n, i) == IF i = 1 THEN <<"development">> ELSE <<"Server", Decimal[i]>>

\* "development" if len(urls) == 1 else f"Server{i}"
ServerName(n, i) == IF n = 1 THEN <<"development">> ELSE <<"Server", Decimal[i]>>

Server(b, u) ==
    [host |-> UrlParse(ServerUrl(u)).netloc,
     pathname |-> UrlParse(ServerUrl(u)).path,
     protocol |-> "amqp",
     protocolVersion |-> "0.9.1",
     tags |-> b.tags,
     security |-> IF b.security = "none" THEN <<>> ELSE <<b.security>>]

RECURSIVE ServersFrom(_, _, _, _)
ServersFrom(b, urls, i, acc) ==
    IF i > Len(urls) THEN acc
    ELSE ServersFrom(b, urls, i + 1,
                     DictSet(acc, ServerName(Len(urls), i), Server(b, urls[i])))

\* urls = broker.url if isinstance(broker.url, list) else [broker.url]
get_broker_server(b) == ServersFrom(b, b.url.items, 1, <<>>)

\* ---------------------------------------------------------------- channels

\* faulty variant: the loop hands out the descriptor an earlier call left behind
SubMessage_cached(i) ==
    IF desc[i].obtained
    THEN [SubSchema(subs[i]).message EXCEPT !.title = desc[i].title]
    ELSE SubSchema(subs[i]).message

\* message = specs_channel.subscribe.message, of the schema() of subscriber i
SubMessage(i) == SubSchema(subs[i]).message

\* Channel(address=channel_name, messages={namespace: Message.from_spec(message)}, ...)
channel_from_spec(message, channel_name, namespace) ==
    [address |-> channel_name,
     messages |-> <<[k |-> namespace, v |-> message]>>,
     servers |-> <<>>]

\* faulty variant: the assert is gone
HasTitle_unchecked(message) == TRUE

\* assert message.title
HasTitle(message) == message.title # <<>>

RECURSIVE SubscriberChannels(_, _, _)
\* the loop over broker._subscribers, from subscriber i on: the channels so far
\* (acc) and the descriptors handed out so far (d); stops at a failed assert
SubscriberChannels(i, acc, d) ==
    IF i > Len(subs) THEN [raised |-> FALSE, channels |-> acc, desc |-> d]
    ELSE LET message == SubMessage(i)
             got == [obtained |-> TRUE, orig |-> message.title, title |-> message.title]
         IN IF ~HasTitle(message)
            THEN [raised |-> TRUE, channels |-> acc, desc |-> [d EXCEPT ![i] = got]]
            ELSE LET relabeled == [message EXCEPT !.title = SubscribeTitle(message.title)]
                 IN SubscriberChannels(
                        i + 1,
                        DictSet(acc, clear_key(subs[i].name),
                                channel_from_spec(relabeled, subs[i].name,
                                                  <<"Subscribe", "Message">>)),
                        [d EXCEPT ![i] = [got EXCEPT !.title = relabeled.title]])

RECURSIVE PublisherChannels(_, _)
\* the loop over broker._publishers, from publisher i on
PublisherChannels(i, acc) ==
    IF i > Len(pubs) THEN acc
    ELSE PublisherChannels(
             i + 1,
             DictSet(acc, clear_key(pubs[i].name),
                     channel_from_spec(PubSchema(pubs[i]).message, pubs[i].name,
                                       <<"Message">>)))

\* faulty variant: publishers are processed before subscribers
get_broker_channels_publishers_first ==
    SubscriberChannels(1, PublisherChannels(1, <<>>), desc)

get_broker_channels ==
    LET s == SubscriberChannels(1, <<>>, desc)
    IN IF s.raised THEN s
       ELSE [s EXCEPT !.channels = PublisherChannels(1, s.channels)]

\* ---------------------------------------------------------------- operations

\* Operation(action=..., channel=Reference("#/channels/<channel_name>"), ...)
operation_from_spec(action, channel_name) ==
    [action |-> action, channel |-> ChannelPrefix \o channel_name]

\* faulty variant: receive-side operations are keyed by the bare channel name
ReceiveKey_bare(channel_name) == channel_name

\* f"{channel_name}Subscribe"
ReceiveKey(channel_name) == channel_name \o <<"Subscribe">>

RECURSIVE SubscriberOperations(_, _)
SubscriberOperations(i, acc) ==
    IF i > Len(subs) THEN acc
    ELSE SubscriberOperations(
             i + 1,
             DictSet(acc, ReceiveKey(clear_key(subs[i].name)),
                     operation_from_spec("receive", clear_key(subs[i].name))))

RECURSIVE PublisherOperations(_, _)
PublisherOperations(i, acc) ==
    IF i > Len(pubs) THEN acc
    ELSE PublisherOperations(
             i + 1,
             DictSet(acc, clear_key(pubs[i].name),
                     operation_from_spec("send", clear_key(pubs[i].name))))

get_broker_operations == PublisherOperations(1, SubscriberOperations(1, <<>>))

\* ---------------------------------------------------------------- resolver

\* Reference(**{"$ref": f"#/components/schemas/{name}"}) of a union variant
VariantRef(name) == SchemaPrefix \o name

RECURSIVE ProcessedPayloads(_, _)
\* processed_payloads[clear_key(name)] = payload, over one_of.items()
ProcessedPayloads(one_of, acc) ==
    IF one_of = <<>> THEN acc
    ELSE ProcessedPayloads(Tail(one_of),
                           DictSet(acc, clear_key(Head(one_of).k), Head(one_of).v))

\* the tables after one message is resolved, and the Reference returned
\* (tables.raised: an assert failed, here or earlier); every payload of the
\* registry is a mapping, so assert isinstance(m.payload, dict) passes
resolve_msg_payloads(message_name, m, channel_name, tables) ==
    LET moved == move_pydantic_refs(m.payload)
        name == clear_key(channel_name) \o <<":">> \o clear_key(message_name)
        drained == IF moved.defs # <<>>
                   THEN DictUpdate(tables.payloads, moved.defs)
                   ELSE tables.payloads
        payload == [moved EXCEPT !.defs = <<>>]
        one_of == payload.oneOf
        one_of_list == [i \in DOMAIN one_of.variants |-> VariantRef(one_of.variants[i].k)]
        payload_name == clear_key(IF payload.title # <<>>
                                  THEN payload.title
                                  ELSE name \o <<":", "Payload">>)
        resolved ==
            IF one_of.kind = "map"
            THEN [payload EXCEPT
                    !.oneOf = [kind |-> "refs", variants |-> <<>>, refs |-> one_of_list]]
            ELSE Reference(SchemaPrefix \o payload_name)
        payloads ==
            IF one_of.kind = "map"
            THEN DictUpdate(drained, ProcessedPayloads(one_of.variants, <<>>))
            ELSE DictSet(drained, payload_name, payload)
    IN IF tables.raised \/ m.title = <<>>
       THEN [tables EXCEPT !.raised = TRUE]
       ELSE [raised |-> FALSE,
             payloads |-> payloads,
             messages |-> DictSet(tables.messages, clear_key(m.title),
                                  [m EXCEPT !.payload = resolved]),
             ref |-> MessagePrefix \o name]

\* ---------------------------------------------------------------- assembler

NoTables == [raised |-> FALSE, payloads |-> <<>>, messages |-> <<>>, ref |-> <<>>]

RECURSIVE ResolveMessages(_, _, _, _)
\* the inner loop of get_app_schema over channel.messages.items(): msgs and the tables
ResolveMessages(channel_name, messages, msgs, tables) ==
    IF messages = <<>> THEN [msgs |-> msgs, tables |-> tables]
    ELSE LET t == resolve_msg_payloads(Head(messages).k, Head(messages).v,
                                       channel_name, tables)
         IN ResolveMessages(channel_name, Tail(messages),
                            DictSet(msgs, Head(messages).k, t.ref), t)

RECURSIVE ResolveChannels(_, _, _)
\* the outer loop over channels.items(), from channel i on
ResolveChannels(chans, i, tables) ==
    IF i > Len(chans) THEN [channels |-> chans, tables |-> tables]
    ELSE LET r == ResolveMessages(chans[i].k, chans[i].v.messages, <<>>, tables)
         IN ResolveChannels([chans EXCEPT ![i].v.messages = r.msgs], i + 1, r.tables)

\* channel.servers = [{"$ref": f"#/servers/{server_name}"} for server_name in servers]
ServerRefs(srv) == [i \in DOMAIN srv |-> ServerPrefix \o srv[i].k]

\* the result of one call: the document, whether the call raised, and the
\* descriptors as the call leaves them
get_app_schema ==
    LET srv == get_broker_server(broker)
        ch == get_broker_channels
        ops == get_broker_operations
        linked == [i \in DOMAIN ch.channels |->
                     [ch.channels[i] EXCEPT !.v.servers = ServerRefs(srv)]]
        r == ResolveChannels(linked, 1, NoTables)
    IN [raised |-> ch.raised \/ r.tables.raised,
        desc |-> ch.desc,
        doc |-> [servers |-> srv,
                 channels |-> r.channels,
                 operations |-> ops,
                 messages |-> r.tables.messages,
                 schemas |-> r.tables.payloads,
                 securitySchemes |-> broker.security]]

\* ---------------------------------------------------------------- actions

NotCalled == [called |-> FALSE, raised |-> FALSE, value |-> <<>>]

MainBrokers ==
    {[url |-> [isList |-> FALSE, items |-> <<<<"h2">>>>], security |-> "none", tags |-> <<>>],
     [url |-> [isList |-> TRUE, items |-> <<<<"amqp", "://", "h1">>, <<"h1", "/v">>>>],
      security |-> "sasl", tags |-> <<"t">>]}

InitRegistry ==
    /\ subs = <<>>
    /\ pubs = <<>>
    /\ desc = <<>>
    /\ docs = <<>>
    /\ raised = FALSE
    /\ channels = NotCalled
    /\ operations = NotCalled
    /\ servers = NotCalled

Init == broker \in MainBrokers /\ InitRegistry

InitServer == broker \in Brokers /\ InitRegistry

\* a registration forgets the results returned for the smaller registry
Forget ==
    /\ docs' = <<>>
    /\ raised' = FALSE
    /\ channels' = NotCalled
    /\ operations' = NotCalled

RegisterSubscriber ==
    \E s \in Subscribers :
        /\ Len(subs) + Len(pubs) < MaxEndpoints
        /\ subs' = Append(subs, s)
        /\ desc' = Append(desc, NoDesc)
        /\ Forget
        /\ UNCHANGED <<broker, pubs, servers>>

RegisterPublisher ==
    \E p \in Publishers :
        /\ Len(subs) + Len(pubs) < MaxEndpoints
        /\ pubs' = Append(pubs, p)
        /\ Forget
        /\ UNCHANGED <<broker, subs, desc, servers>>

GetAppSchema ==
    /\ \E r \in {get_app_schema} :
          /\ raised' = r.raised
          /\ desc' = r.desc
          /\ docs' = IF r.raised THEN docs
                     ELSE IF docs = <<>> THEN <<r.doc>>
                     ELSE <<docs[Len(docs)], r.doc>>
    /\ UNCHANGED <<broker, subs, pubs, channels, operations, servers>>

GetBrokerChannels ==
    /\ \E r \in {get_broker_channels} :
          /\ channels' = [called |-> TRUE, raised |-> r.raised,
                          value |-> IF r.raised THEN <<>> ELSE r.channels]
          /\ desc' = r.desc
    /\ UNCHANGED <<broker, subs, pubs, docs, raised, operations, servers>>

GetBrokerOperations ==
    /\ operations' = [called |-> TRUE, raised |-> FALSE, value |-> get_broker_operations]
    /\ UNCHANGED <<broker, subs, pubs, desc, docs, raised, channels, servers>>

GetBrokerServer ==
    /\ servers' = [called |-> TRUE, raised |-> FALSE, value |-> get_broker_server(broker)]
    /\ UNCHANGED <<broker, subs, pubs, desc, docs, raised, channels, operations>>

Next == RegisterSubscriber \/ RegisterPublisher \/ GetAppSchema

Spec == Init /\ [][Next]_vars

NextChannels ==
    RegisterSubscriber \/ RegisterPublisher \/ GetBrokerChannels \/ GetBrokerOperations

InitChannels == broker = (CHOOSE b \in MainBrokers : ~b.url.isList) /\ InitRegistry

SpecChannels == InitChannels /\ [][NextChannels]_vars

SpecServer == InitServer /\ [][GetBrokerServer]_vars

\* ---------------------------------------------------------------- properties

Called == raised \/ docs # <<>>

SubNames == {subs[i].name : i \in DOMAIN subs}
PubNames == {pubs[i].name : i \in DOMAIN pubs}

\* the reference r is prefix + k with k a key of table
Resolves(r, prefix, table) ==
    /\ Len(r) > Len(prefix)
    /\ SubSeq(r, 1, Len(prefix)) = prefix
    /\ SubSeq(r, Len(prefix) + 1, Len(r)) \in Keys(table)

RefIntegrity(doc) ==
    /\ \A i \in DOMAIN doc.channels :
          LET c == doc.channels[i].v
          IN /\ \A j \in DOMAIN c.messages :
                    Resolves(c.messages[j].v, MessagePrefix, doc.messages)
             /\ \A j \in DOMAIN c.servers :
                    Resolves(c.servers[j], ServerPrefix, doc.servers)
    /\ \A i \in DOMAIN doc.messages :
          LET p == doc.messages[i].v.payload
          IN /\ p.ref # <<>> => Resolves(p.ref, SchemaPrefix, doc.schemas)
             /\ \A j \in DOMAIN p.oneOf.refs :
                    Resolves(p.oneOf.refs[j], SchemaPrefix, doc.schemas)

\* C1: in every document returned, every $ref (a channel's message and server
\* references, a message's payload reference, the elements of a oneOf list)
\* names an existing key of the table it points into.
C1_ReferenceIntegrity == \A n \in DOMAIN docs : RefIntegrity(docs[n])

RECURSIVE HasDefs(_)
\* a shared-definitions block is in the schema body or in a variant nested in it
HasDefs(b) ==
    \/ b.defs # <<>>
    \/ \E i \in DOMAIN b.oneOf.variants : HasDefs(b.oneOf.variants[i].v)

OnlyReferences(p) ==
    \/ p.ref # <<>> /\ p.oneOf.kind = "none"
    \/ p.ref = <<>> /\ p.oneOf.kind = "refs"

\* C2: in every document returned, every message payload is one Reference or a
\* oneOf list of References, and no shared-definitions block is left in a
\* message payload or in a schema body of components.schemas.
C2_NoInlineDuplication ==
    \A n \in DOMAIN docs :
        /\ \A i \in DOMAIN docs[n].messages :
              /\ OnlyReferences(docs[n].messages[i].v.payload)
              /\ ~HasDefs(docs[n].messages[i].v.payload)
        /\ \A i \in DOMAIN docs[n].schemas : ~HasDefs(docs[n].schemas[i].v)

\* C3: when a channel name X is registered by a subscriber and by a publisher,
\* components.messages of every document returned has both the key
\* X:SubscribeMessage and the key X:Message.
C3_TitleDisambiguation ==
    \A n \in DOMAIN docs :
        \A x \in SubNames \cap PubNames :
            /\ clear_key(x \o <<":", "Subscribe", "Message">>) \in Keys(docs[n].messages)
            /\ clear_key(x \o <<":", "Message">>) \in Keys(docs[n].messages)

\* the endpoints whose message title gives the key t of components.messages
TitledAs(t) ==
    {s \in {subs[i] : i \in DOMAIN subs} :
        clear_key(s.name \o <<":", "Subscribe", "Message">>) = t}
    \cup {q \in {pubs[i] : i \in DOMAIN pubs} : clear_key(q.name \o <<":", "Message">>) = t}

\* C4: a message resolved from a oneOf mapping has a oneOf list with one
\* Reference per variant, in the mapping's order, each naming the normalized
\* variant name, and components.schemas holds every variant's body under that
\* normalized name.
C4_UnionHandling ==
    \A n \in DOMAIN docs :
        \A i \in DOMAIN docs[n].messages :
            \A e \in TitledAs(docs[n].messages[i].k) :
                LET was == e.payload.oneOf.variants
                    now == docs[n].messages[i].v.payload.oneOf
                IN e.payload.oneOf.kind = "map" /\ now.kind = "refs" =>
                    /\ Len(now.refs) = Len(was)
                    /\ \A j \in DOMAIN was :
                          /\ now.refs[j] = SchemaPrefix \o clear_key(was[j].k)
                          /\ HasKey(docs[n].schemas, clear_key(was[j].k))
                          /\ DictGet(docs[n].schemas, clear_key(was[j].k)).title
                                = was[j].v.title

C10_DescriptorsReadOnly ==
    \A i \in DOMAIN desc : desc[i].obtained => desc[i].title = desc[i].orig

\* the registered channel names normalize to distinct keys, and no publisher's
\* operation key is a subscriber's
KeysDistinct ==
    /\ \A a, b \in SubNames \cup PubNames : clear_key(a) = clear_key(b) => a = b
    /\ \A a \in SubNames, b \in PubNames : clear_key(b) # clear_key(a) \o <<"Subscribe">>

TablesBuilt == channels.called /\ ~channels.raised /\ operations.called

ExpectedHost(u) == IF u = <<"h2">> THEN "h2" ELSE "h1"
ExpectedPath(u) == IF u = <<"h1", "/v">> THEN <<"/v">> ELSE <<>>

\* C7: get_broker_server returns one record per configured URL, in input
\* order, duplicates included, named development when one URL is configured
\* and Server<i> otherwise, all with the same broker metadata.
C7_ServerNaming ==
    servers.called =>
        LET urls == broker.url.items
            v == servers.value
        IN /\ Len(v) = Len(urls)
           /\ \A i \in DOMAIN v :
                 /\ v[i].k = IF Len(urls) = 1 THEN <<"development">>
                              ELSE <<"Server", Decimal[i]>>
                 /\ v[i].v.host = ExpectedHost(urls[i])
                 /\ v[i].v.pathname = ExpectedPath(urls[i])
                 /\ v[i].v.tags = broker.tags
                 /\ v[i].v.security = IF broker.security = "none" THEN <<>>
                                       ELSE <<broker.security>>
                 /\ v[i].v.protocol = v[1].v.protocol
                 /\ v[i].v.protocolVersion = v[1].v.protocolVersion

C7_Witness ==
    /\ servers.called
    /\ broker.url.isList
    /\ Len(broker.url.items) = 3
    /\ broker.url.items[1] = broker.url.items[3]
    /\ Len(servers.value) = 3

Untitled == \E i \in DOMAIN subs : ~subs[i].titled

ListPayloadRegistered ==
    \/ \E i \in DOMAIN subs : subs[i].payload.oneOf.kind = "list"
    \/ \E i \in DOMAIN pubs : pubs[i].payload.oneOf.kind = "list"

\* C8, as stated: a call of get_app_schema raises when a registered message
\* has no title or has a oneOf that is not a mapping.
C8_FailFast == Called /\ (Untitled \/ ListPayloadRegistered) => raised

\* C8, amended: a call of get_app_schema raises exactly when a registered
\* subscriber message has no title, and then returns no document; a oneOf that
\* is not a mapping does not make it raise: the payload is stored whole, oneOf
\* list included, in components.schemas; a call that does not raise returns a
\* document whose every channel has its message and server references.
C8_FailFastOnMissingTitle ==
    Called =>
        /\ raised <=> Untitled
        /\ raised => docs = <<>>
        /\ ~raised =>
              /\ docs # <<>>
              /\ \A n \in DOMAIN docs :
                    /\ \A i \in DOMAIN docs[n].channels :
                          /\ docs[n].channels[i].v.messages # <<>>
                          /\ Len(docs[n].channels[i].v.servers) = Len(docs[n].servers)
                    /\ \A i \in DOMAIN docs[n].schemas :
                          docs[n].schemas[i].k = ListPayload.title =>
                              docs[n].schemas[i].v.oneOf = ListPayload.oneOf
                    /\ ListPayloadRegistered => docs[n].schemas # <<>>

C8_Witness ==
    /\ raised
    /\ Len(subs) = 2
    /\ subs[1].titled /\ ~subs[2].titled

\* the endpoint processed n-th: subscribers in registry order, then publishers
EndpointAt(n) == IF n <= Len(subs) THEN subs[n] ELSE pubs[n - Len(subs)]

\* the last endpoint processed whose channel name normalizes to k
LastFor(k) ==
    CHOOSE n \in 1..(Len(subs) + Len(pubs)) :
        /\ clear_key(EndpointAt(n).name) = k
        /\ \A m \in 1..(Len(subs) + Len(pubs)) :
              clear_key(EndpointAt(m).name) = k => m <= n

\* the channel record of the endpoint processed n-th
ExpectedChannel(n) ==
    LET e == EndpointAt(n)
        role == IF n <= Len(subs) THEN <<"Subscribe", "Message">> ELSE <<"Message">>
    IN [address |-> e.name,
        messages |-> <<[k |-> role,
                        v |-> [title |-> e.name \o <<":">> \o role,
                               payload |-> e.payload]]>>,
        servers |-> <<>>]

\* C9: the channels table of get_broker_channels has one record per normalized
\* channel key, the one built from the last endpoint processed with that key
\* (subscribers in registry order, then publishers in registry order), holding
\* that endpoint's message only.
C9_ChannelMergeOrder ==
    channels.called /\ ~channels.raised =>
        LET v == channels.value
        IN /\ \A i, j \in DOMAIN v : v[i].k = v[j].k => i = j
           /\ Keys(v) = {clear_key(EndpointAt(n).name) : n \in 1..(Len(subs) + Len(pubs))}
           /\ \A i \in DOMAIN v : v[i].v = ExpectedChannel(LastFor(v[i].k))

C9_Witness ==
    /\ channels.called /\ ~channels.raised
    /\ Len(subs) = 2
    /\ subs[1].name # subs[2].name
    /\ Len(channels.value) = 1

====
